---- MODULE Spec2Model ----
(***************************************************************************)
(* Model of the repeating-key XOR file codec of xor_crypto.py:             *)
(* CryptoHeader (serialize / from_bytes), XORCrypto.encrypt / decrypt and  *)
(* the chunked encrypt_file / decrypt_file loops, driven the way           *)
(* test_xor_crypto.py and process_file.py drive them.                      *)
(*                                                                         *)
(* Bytes are naturals 0..255, a bytes object is a sequence of them, a str  *)
(* key is the sequence of its code points (ord is the identity on that     *)
(* representation), Optional[str] is a sequence of length at most one.     *)
(* A call's outcome is a record [exc, val]: exc names the exception that   *)
(* left the call (NoExc when it returned), val is the returned value.      *)
(***************************************************************************)
EXTENDS Integers, Sequences, FiniteSets, TLC

\* ---------------------------------------------------------------- bounds
MaxLen == 3        \* longest test_data / source file, in bytes
MaxKeyLen == 2     \* longest key, in characters
MaxOffset == 3     \* largest offset handed to encrypt / decrypt
MaxChunk == 3      \* largest CHUNK_SIZE tried

\* ----------------------------------------------------- program constants
MAGIC_NUMBER == 1263552333
VERSION == 1
HEADER_SIZE == 16

\* ------------------------------------------------------------ input sets
DataBytes == {65, 255}          \* byte values found in plaintexts
KeyChars == {97, 98, 256}       \* 'a', 'b' and U+0100, a code point above 255
BadMagicBytes == {0, 77}        \* values a corrupted magic byte is overwritten with
HeaderCuts == {0, 1, HEADER_SIZE - 1}   \* lengths a file is cut to inside its header

SeqsUpTo(S, n) == UNION {[1..m -> S] : m \in 0..n}
ByteSeqs == SeqsUpTo(DataBytes, MaxLen)
Keys == SeqsUpTo(KeyChars, MaxKeyLen)
None == <<>>
Some(k) == <<k>>
OptionalKeys == {None} \cup {Some(k) : k \in Keys}

\* ------------------------------------------------------------ exceptions
NoExc == "None"
ZeroDivisionError == "ZeroDivisionError: integer modulo by zero"
BytesRangeError == "ValueError: bytes must be in range(0, 256)"
MissingHeader == "ValueError: Invalid encrypted file: missing header"
InvalidHeader == "ValueError: Invalid encrypted file: invalid header"
SizeMismatch == "ValueError: Invalid encrypted file: expected size"
InvalidFormat == {MissingHeader, InvalidHeader}

Return(v) == [exc |-> NoExc, val |-> v]
Raise(e) == [exc |-> e, val |-> <<>>]

\* ------------------------------------------------------- integer helpers
IsByte(v) == v \in 0..255
Min(a, b) == IF a < b THEN a ELSE b

\* Python's ^ on non-negative integers.
RECURSIVE Xor(_, _)
Xor(a, b) ==
  IF a = 0 THEN b
  ELSE IF b = 0 THEN a
  ELSE (((a % 2) + (b % 2)) % 2) + (2 * Xor(a \div 2, b \div 2))

\* struct.pack('<I' / '<Q', v): n bytes, least significant first.
RECURSIVE pack_le(_, _)
pack_le(v, n) ==
  IF n = 0 THEN <<>> ELSE <<v % 256>> \o pack_le(v \div 256, n - 1)

\* struct.unpack('<I' / '<Q', b)[0].
RECURSIVE unpack_le(_)
unpack_le(b) ==
  IF b = <<>> THEN 0 ELSE b[1] + (256 * unpack_le(Tail(b)))

\* data[lo:hi] of Python, 0-based, clipped to the sequence.
Slice(data, lo, hi) == SubSeq(data, lo + 1, Min(hi, Len(data)))

\* ---------------------------------------------------------- CryptoHeader
CryptoHeader(file_size) ==
  [magic |-> MAGIC_NUMBER, version |-> VERSION, original_size |-> file_size]

\* The fields packed big-endian ('>I', '>I', '>Q').
RECURSIVE pack_be(_, _)
pack_be(v, n) ==
  IF n = 0 THEN <<>> ELSE pack_be(v \div 256, n - 1) \o <<v % 256>>

serialize_big_endian(header) ==
  pack_be(header.magic, 4) \o pack_be(header.version, 4)
    \o pack_be(header.original_size, 8)

serialize(header) ==
  pack_le(header.magic, 4) \o pack_le(header.version, 4)
    \o pack_le(header.original_size, 8)

\* from_bytes without the verification of the magic number.
from_bytes_unverified(data) ==
  IF Len(data) < HEADER_SIZE THEN None
  ELSE Some(CryptoHeader(unpack_le(Slice(data, 8, 16))))

\* The result is Optional[CryptoHeader]: None or Some(header).
from_bytes(data) ==
  IF Len(data) < HEADER_SIZE THEN None
  ELSE LET magic == unpack_le(Slice(data, 0, 4))
           version == unpack_le(Slice(data, 4, 8))
           original_size == unpack_le(Slice(data, 8, 16))
       IN IF magic # MAGIC_NUMBER THEN None
          ELSE Some(CryptoHeader(original_size))

\* ------------------------------------------------------------- XORCrypto
XORCrypto(k) == [key |-> k]

\* The key argument ignored.
key_to_use_self_only(self, key) == self.key

\* key_to_use = key if key is not None else self.key
key_to_use(self, key) == IF key # None THEN key[1] ELSE self.key

\* A mask taken from the position inside the call's data, not the absolute one.
mask_chunk_local(k, offset, i) == k[(i % Len(k)) + 1]

\* The mask of position offset + i (i 0-based): ord(k[(offset + i) % len(k)]).
mask(k, offset, i) == k[((offset + i) % Len(k)) + 1]

\* XORCrypto.encrypt. The generator is consumed in order: an empty key
\* raises at the first element (modulo by zero), and bytes() raises at the
\* first element outside range(256); empty data consumes nothing.
encrypt(self, data, offset, key) ==
  LET k == key_to_use(self, key) IN
  IF data = <<>> THEN Return(<<>>)
  ELSE IF Len(k) = 0 THEN Raise(ZeroDivisionError)
  ELSE LET out == [i \in 1..Len(data) |-> Xor(data[i], mask(k, offset, i - 1))]
       IN IF \E i \in 1..Len(data) : out[i] > 255
          THEN Raise(BytesRangeError)
          ELSE Return(out)

\* XORCrypto.decrypt: the same operation.
decrypt(self, data, offset, key) == encrypt(self, data, offset, key)

\* ---------------------------------------------------------------- state
VARIABLES
  CHUNK_SIZE,       \* XORCrypto.CHUNK_SIZE, the size asked of each chunk read
  test_data,        \* the plaintext of the run (TestXORCrypto.test_data)
  crypto,           \* the XORCrypto instance that encrypts
  dec_crypto,       \* the XORCrypto instance decrypt_file is called on
  fs,               \* the file system: path -> content, for the files that exist
  pc,               \* where the run is
  src_pos,          \* read position of the open source_file
  offset,           \* the running keystream offset of the file loops
  remaining_size,   \* decrypt_file's remaining_size
  exc,              \* the exception that ended the current operation, or NoExc
  tamper,           \* what was done to the encrypted file after encrypt_file
  header,           \* result of a direct CryptoHeader.from_bytes call
  arg_offset,       \* offset argument of the encrypt / decrypt calls
  arg_key,          \* key argument of the decrypt call
  encrypted,        \* outcome of crypto.encrypt(test_data, offset)
  decrypted,        \* outcome of crypto.decrypt(encrypted, offset, key)
  stream_pos,       \* start of the next sub-range of the streamed decrypt
  decrypted_chunks  \* the sub-ranges decrypted so far, joined

vars == <<CHUNK_SIZE, test_data, crypto, dec_crypto, fs, pc, src_pos, offset,
          remaining_size, exc, tamper, header, arg_offset, arg_key, encrypted,
          decrypted, stream_pos, decrypted_chunks>>

fileVars == <<fs, src_pos, offset, remaining_size, tamper, header, dec_crypto>>
dataVars == <<arg_offset, arg_key, encrypted, decrypted, stream_pos,
              decrypted_chunks>>

SOURCE == "source.txt"
ENCRYPTED == "encrypted.txt"
DECRYPTED == "decrypted.txt"

\* setUp, and the source file written by test_encrypt_decrypt_file.
Init ==
  /\ CHUNK_SIZE \in 1..MaxChunk
  /\ test_data \in ByteSeqs
  /\ \E k \in Keys : crypto = XORCrypto(k)
  /\ dec_crypto = crypto
  /\ fs = [p \in {SOURCE} |-> test_data]
  /\ pc = "idle"
  /\ src_pos = 0
  /\ offset = 0
  /\ remaining_size = 0
  /\ exc = NoExc
  /\ tamper = "none"
  /\ header = None
  /\ arg_offset = 0
  /\ arg_key = None
  /\ encrypted = Return(<<>>)
  /\ decrypted = Return(<<>>)
  /\ stream_pos = 0
  /\ decrypted_chunks = <<>>

\* open(path, 'wb') and write(): the file is created or replaced.
WriteFile(path, content) ==
  [p \in DOMAIN fs \cup {path} |-> IF p = path THEN content ELSE fs[p]]

\* source_file.read(size) inside the chunk loops: up to size bytes from the
\* read position, nothing only at the end of the file.  A buffered read of
\* a regular file returns size bytes unless the file ends; the shorter
\* results are the reads that return fewer bytes than requested.
ReadChunks(path, size) ==
  {Slice(fs[path], src_pos, src_pos + n) : n \in 1..size}

\* source_file.read(HEADER_SIZE) on the freshly opened file.
ReadHeader(path) == Slice(fs[path], 0, HEADER_SIZE)

\* A running offset that counts chunks instead of bytes.
NextOffset_per_chunk(off, chunk) == off + 1

\* offset += len(chunk)
NextOffset(off, chunk) == off + Len(chunk)

\* -------------------------------------------------- XORCrypto.encrypt_file
\* Lines 101-114: size, header, destination opened and header written,
\* source opened, offset = 0.
EncryptFileOpen ==
  /\ pc = "idle"
  /\ LET file_size == Len(fs[SOURCE])
         header_bytes == serialize(CryptoHeader(file_size))
     IN fs' = WriteFile(ENCRYPTED, header_bytes)
  /\ offset' = 0
  /\ src_pos' = 0
  /\ pc' = "enc_loop"
  /\ UNCHANGED <<CHUNK_SIZE, test_data, crypto, dec_crypto, remaining_size, exc,
                 tamper, header>>
  /\ UNCHANGED dataVars

\* Lines 115-125: one pass of the while loop, or its exit.
EncryptFileChunk ==
  /\ pc = "enc_loop"
  /\ \E chunk \in ReadChunks(SOURCE, CHUNK_SIZE) :
       IF chunk = <<>>
       THEN /\ pc' = "enc_done"
            /\ UNCHANGED <<fs, offset, src_pos, exc>>
       ELSE LET encrypted_chunk == encrypt(crypto, chunk, offset, None) IN
            IF encrypted_chunk.exc # NoExc
            THEN /\ pc' = "enc_failed"
                 /\ exc' = encrypted_chunk.exc
                 /\ UNCHANGED <<fs, offset, src_pos>>
            ELSE /\ fs' = WriteFile(ENCRYPTED, fs[ENCRYPTED] \o encrypted_chunk.val)
                 /\ offset' = NextOffset(offset, chunk)
                 /\ src_pos' = src_pos + Len(chunk)
                 /\ UNCHANGED <<pc, exc>>
  /\ UNCHANGED <<CHUNK_SIZE, test_data, crypto, dec_crypto, remaining_size,
                 tamper, header>>
  /\ UNCHANGED dataVars

\* ------------------------------------------ the encrypted file is damaged
EncryptFileOver == pc \in {"enc_done", "enc_failed"}

\* The file is cut short: inside the header, or anywhere in the payload.
TruncateFile ==
  /\ EncryptFileOver
  /\ tamper = "none"
  /\ \E n \in HeaderCuts \cup (HEADER_SIZE..(Len(fs[ENCRYPTED]) - 1)) :
       /\ n < Len(fs[ENCRYPTED])
       /\ fs' = WriteFile(ENCRYPTED, SubSeq(fs[ENCRYPTED], 1, n))
  /\ tamper' = "truncated"
  /\ UNCHANGED <<CHUNK_SIZE, test_data, crypto, dec_crypto, pc, src_pos, offset,
                 remaining_size, exc, header>>
  /\ UNCHANGED dataVars

\* One of the four magic bytes is overwritten with another value.
CorruptMagic ==
  /\ EncryptFileOver
  /\ tamper = "none"
  /\ \E j \in 1..4, b \in BadMagicBytes :
       /\ b # fs[ENCRYPTED][j]
       /\ fs' = WriteFile(ENCRYPTED, [fs[ENCRYPTED] EXCEPT ![j] = b])
  /\ tamper' = "magic"
  /\ UNCHANGED <<CHUNK_SIZE, test_data, crypto, dec_crypto, pc, src_pos, offset,
                 remaining_size, exc, header>>
  /\ UNCHANGED dataVars

\* -------------------------------------------------- XORCrypto.decrypt_file
\* Lines 134-147, on an instance built with any key (XORCrypto.__init__
\* keeps whatever key it is given): header read and checked, destination
\* opened, offset = 0, remaining_size = header.original_size.
DecryptFileOpen ==
  /\ EncryptFileOver
  /\ \E k \in Keys : dec_crypto' = XORCrypto(k)
  /\ LET header_data == ReadHeader(ENCRYPTED)
         hdr == from_bytes(header_data)
     IN IF Len(header_data) < HEADER_SIZE
        THEN /\ exc' = MissingHeader
             /\ pc' = "dec_failed"
             /\ UNCHANGED <<fs, src_pos, offset, remaining_size>>
        ELSE IF hdr = None
        THEN /\ exc' = InvalidHeader
             /\ pc' = "dec_failed"
             /\ UNCHANGED <<fs, src_pos, offset, remaining_size>>
        ELSE /\ fs' = WriteFile(DECRYPTED, <<>>)
             /\ src_pos' = Len(header_data)
             /\ offset' = 0
             /\ remaining_size' = hdr[1].original_size
             /\ exc' = NoExc
             /\ pc' = "dec_loop"
  /\ UNCHANGED <<CHUNK_SIZE, test_data, crypto, tamper, header>>
  /\ UNCHANGED dataVars

\* Lines 149-161: one pass of the while loop that reads a non-empty chunk.
DecryptFileChunk ==
  /\ pc = "dec_loop"
  /\ remaining_size > 0
  /\ LET chunk_size == Min(CHUNK_SIZE, remaining_size) IN
     \E encrypted_chunk \in ReadChunks(ENCRYPTED, chunk_size) :
       /\ encrypted_chunk # <<>>
       /\ LET decrypted_chunk == decrypt(dec_crypto, encrypted_chunk, offset, None) IN
          IF decrypted_chunk.exc # NoExc
          THEN /\ pc' = "dec_failed"
               /\ exc' = decrypted_chunk.exc
               /\ UNCHANGED <<fs, offset, src_pos, remaining_size>>
          ELSE /\ fs' = WriteFile(DECRYPTED, fs[DECRYPTED] \o decrypted_chunk.val)
               /\ offset' = NextOffset(offset, encrypted_chunk)
               /\ src_pos' = src_pos + Len(encrypted_chunk)
               /\ remaining_size' = remaining_size - Len(decrypted_chunk.val)
               /\ UNCHANGED <<pc, exc>>
  /\ UNCHANGED <<CHUNK_SIZE, test_data, crypto, dec_crypto, tamper, header>>
  /\ UNCHANGED dataVars

\* Lines 149-154 and 163-167: the loop ends (remaining_size is not positive,
\* or the read returned nothing) and the final size is verified.
DecryptFileVerify ==
  /\ pc = "dec_loop"
  /\ remaining_size <= 0 \/ src_pos >= Len(fs[ENCRYPTED])
  /\ IF remaining_size # 0
     THEN /\ exc' = SizeMismatch
          /\ pc' = "dec_failed"
     ELSE /\ pc' = "dec_done"
          /\ UNCHANGED exc
  /\ UNCHANGED <<CHUNK_SIZE, test_data, crypto, dec_crypto, fs, src_pos, offset,
                 remaining_size, tamper, header>>
  /\ UNCHANGED dataVars

\* A direct CryptoHeader.from_bytes(data) on the encrypted file's bytes.
FromBytesCall ==
  /\ EncryptFileOver
  /\ header' = from_bytes(fs[ENCRYPTED])
  /\ pc' = "parsed"
  /\ UNCHANGED <<CHUNK_SIZE, test_data, crypto, dec_crypto, fs, src_pos, offset,
                 remaining_size, exc, tamper>>
  /\ UNCHANGED dataVars

\* ------------------------------------------- XORCrypto.encrypt / decrypt
\* encrypted = self.crypto.encrypt(self.test_data, offset)
CallEncrypt ==
  /\ pc = "idle"
  /\ \E o \in 0..MaxOffset :
       /\ arg_offset' = o
       /\ encrypted' = encrypt(crypto, test_data, o, None)
  /\ exc' = encrypted'.exc
  /\ pc' = IF encrypted'.exc = NoExc THEN "encrypted" ELSE "encrypt_raised"
  /\ UNCHANGED <<CHUNK_SIZE, test_data, crypto, arg_key, decrypted, stream_pos,
                 decrypted_chunks>>
  /\ UNCHANGED fileVars

\* decrypted = self.crypto.decrypt(encrypted, offset, key), the key argument
\* left out (None) or any key.
CallDecrypt ==
  /\ pc = "encrypted"
  /\ \E key \in OptionalKeys :
       /\ arg_key' = key
       /\ decrypted' = decrypt(crypto, encrypted.val, arg_offset, key)
  /\ exc' = decrypted'.exc
  /\ pc' = IF decrypted'.exc = NoExc THEN "decrypted" ELSE "decrypt_raised"
  /\ UNCHANGED <<CHUNK_SIZE, test_data, crypto, arg_offset, encrypted, stream_pos,
                 decrypted_chunks>>
  /\ UNCHANGED fileVars

\* test_streaming_decryption, lines 70-73: the next sub-range of the
\* ciphertext (of any positive length) is decrypted at its absolute offset.
StreamDecryptChunk ==
  /\ pc \in {"encrypted", "streaming"}
  /\ arg_offset = 0
  /\ stream_pos < Len(encrypted.val)
  /\ \E chunk_size \in 1..(Len(encrypted.val) - stream_pos) :
       LET i == stream_pos
           chunk == Slice(encrypted.val, i, i + chunk_size)
           decrypted_chunk == decrypt(crypto, chunk, i, None)
       IN IF decrypted_chunk.exc # NoExc
          THEN /\ pc' = "stream_raised"
               /\ exc' = decrypted_chunk.exc
               /\ UNCHANGED <<stream_pos, decrypted_chunks>>
          ELSE /\ pc' = "streaming"
               /\ decrypted_chunks' = decrypted_chunks \o decrypted_chunk.val
               /\ stream_pos' = i + chunk_size
               /\ UNCHANGED exc
  /\ UNCHANGED <<CHUNK_SIZE, test_data, crypto, arg_offset, arg_key, encrypted,
                 decrypted>>
  /\ UNCHANGED fileVars

\* Line 76: decrypted = b"".join(decrypted_chunks), once the range is covered.
StreamDecryptJoin ==
  /\ pc \in {"encrypted", "streaming"}
  /\ arg_offset = 0
  /\ stream_pos >= Len(encrypted.val)
  /\ decrypted' = Return(decrypted_chunks)
  /\ pc' = "streamed"
  /\ UNCHANGED <<CHUNK_SIZE, test_data, crypto, exc, arg_offset, arg_key,
                 encrypted, stream_pos, decrypted_chunks>>
  /\ UNCHANGED fileVars

\* ----------------------------------------------------------------- system
Next ==
  \/ EncryptFileOpen
  \/ EncryptFileChunk
  \/ TruncateFile
  \/ CorruptMagic
  \/ DecryptFileOpen
  \/ DecryptFileChunk
  \/ DecryptFileVerify
  \/ FromBytesCall
  \/ CallEncrypt
  \/ CallDecrypt
  \/ StreamDecryptChunk
  \/ StreamDecryptJoin

Spec == Init /\ [][Next]_vars

\* The shape of the state: what each variable of the program can hold.
PcValues ==
  {"idle", "enc_loop", "enc_done", "enc_failed", "dec_loop", "dec_done",
   "dec_failed", "parsed", "encrypted", "encrypt_raised", "decrypted",
   "decrypt_raised", "streaming", "streamed", "stream_raised"}

TypeOK ==
  /\ CHUNK_SIZE \in 1..MaxChunk
  /\ test_data \in ByteSeqs
  /\ crypto \in {XORCrypto(k) : k \in Keys}
  /\ dec_crypto \in {XORCrypto(k) : k \in Keys}
  /\ DOMAIN fs \subseteq {SOURCE, ENCRYPTED, DECRYPTED}
  /\ \A p \in DOMAIN fs : \A i \in 1..Len(fs[p]) : IsByte(fs[p][i])
  /\ pc \in PcValues
  /\ src_pos \in 0..(HEADER_SIZE + MaxLen)
  /\ offset \in 0..MaxLen
  /\ remaining_size \in 0..MaxLen
  /\ exc \in {NoExc, ZeroDivisionError, BytesRangeError, MissingHeader,
              InvalidHeader, SizeMismatch}
  /\ tamper \in {"none", "truncated", "magic"}
  /\ header \in {None} \cup {Some(CryptoHeader(n)) : n \in 0..MaxLen}
  /\ arg_offset \in 0..MaxOffset
  /\ arg_key \in OptionalKeys
  /\ encrypted.exc \in {NoExc, ZeroDivisionError, BytesRangeError}
  /\ decrypted.exc \in {NoExc, ZeroDivisionError, BytesRangeError}
  /\ \A i \in 1..Len(encrypted.val) : IsByte(encrypted.val[i])
  /\ \A i \in 1..Len(decrypted.val) : IsByte(decrypted.val[i])
  /\ stream_pos \in 0..MaxLen
  /\ Len(decrypted_chunks) = stream_pos

\* ------------------------------------------------- vocabulary of the claims
ByteKey(k) == \A i \in 1..Len(k) : IsByte(k[i])
Payload(file) == SubSeq(file, HEADER_SIZE + 1, Len(file))
MagicBytes == <<77, 71, 80, 75>>
HeaderOf(n) == MagicBytes \o <<1, 0, 0, 0>> \o <<n, 0, 0, 0, 0, 0, 0, 0>>
ShortFile(file) == Len(file) < HEADER_SIZE
BadMagic(file) == Len(file) >= 4 /\ SubSeq(file, 1, 4) # MagicBytes
\* The size a well-formed header declares (its ninth byte, for sizes < 256).
DeclaredSize(file) == file[9]
ValidHeader(file) ==
  /\ Len(file) >= HEADER_SIZE
  /\ SubSeq(file, 1, 4) = MagicBytes
  /\ \A i \in 10..16 : file[i] = 0
\* k1 and k2 give the same mask at every position below n.
SameKeystream(k1, k2, n) ==
  /\ k1 # <<>>
  /\ k2 # <<>>
  /\ \A i \in 0..(n - 1) : k1[(i % Len(k1)) + 1] = k2[(i % Len(k2)) + 1]
EncryptFileRan == pc \in {"enc_loop", "enc_done", "enc_failed"} /\ tamper = "none"
DecryptFileOver == pc \in {"dec_done", "dec_failed"}

\* C1: round-trip file fidelity. For every plaintext and every non-empty
\* key, encrypt_file followed by decrypt_file with the same key on the
\* untouched result completes without error and leaves a destination file
\* holding exactly the plaintext.
RoundTripFile ==
  ( /\ crypto.key # <<>>
    /\ dec_crypto = crypto
    /\ tamper = "none"
    /\ pc \in {"enc_failed", "dec_failed", "dec_done"} )
  => ( /\ pc = "dec_done"
       /\ exc = NoExc
       /\ fs[DECRYPTED] = test_data )

\* C2: involution. For every data, offset and non-empty key k,
\* decrypt(encrypt(d, o, k), o, k) returns d.
Involution ==
  ( /\ crypto.key # <<>>
    /\ key_to_use(crypto, arg_key) = crypto.key
    /\ pc \in {"encrypt_raised", "decrypt_raised", "decrypted"} )
  => ( /\ pc = "decrypted"
       /\ decrypted = Return(test_data) )

CiphertextFormat ==
  (pc = "enc_done" /\ tamper = "none") =>
    LET file == fs[ENCRYPTED]
        N == Len(test_data)
    IN /\ Len(file) = HEADER_SIZE + N
       /\ SubSeq(file, 1, HEADER_SIZE) = HeaderOf(N)
       /\ \A i \in 1..N :
            /\ IsByte(file[HEADER_SIZE + i])
            /\ file[HEADER_SIZE + i]
                 = Xor(test_data[i], crypto.key[((i - 1) % Len(crypto.key)) + 1])
       /\ DeclaredSize(file) = Len(Payload(file))

\* C4 witness: a three-byte plaintext encrypted under a two-character key.
CiphertextFormatWitness ==
  /\ pc = "enc_done"
  /\ tamper = "none"
  /\ Len(test_data) = 3
  /\ Len(crypto.key) = 2
  /\ crypto.key[1] # crypto.key[2]
  /\ Len(fs[ENCRYPTED]) = HEADER_SIZE + 3

\* C5: header rejection. decrypt_file on a file shorter than 16 bytes, or
\* whose first four bytes are not the magic, fails with InvalidFormat and
\* with nothing else, whatever the key, and creates no destination;
\* from_bytes returns None on such bytes.
HeaderRejection ==
  ( /\ ENCRYPTED \in DOMAIN fs
    /\ ShortFile(fs[ENCRYPTED]) \/ BadMagic(fs[ENCRYPTED]) ) =>
    /\ pc \in {"dec_loop", "dec_done", "dec_failed"} =>
         /\ pc = "dec_failed"
         /\ exc \in InvalidFormat
         /\ ShortFile(fs[ENCRYPTED]) => exc = MissingHeader
         /\ DECRYPTED \notin DOMAIN fs
    /\ pc = "parsed" => header = None

\* C5 witness: a file with a corrupted magic was refused by a decrypt_file
\* whose key would make the transform raise.
HeaderRejectionWitness ==
  /\ pc = "dec_failed"
  /\ tamper = "magic"
  /\ exc = InvalidHeader
  /\ Len(fs[ENCRYPTED]) > HEADER_SIZE
  /\ ~ByteKey(dec_crypto.key)

\* C6: truncation detection. When a valid header declares N and fewer than
\* N payload bytes follow, decrypt_file (under any non-empty key) fails with
\* SizeMismatch; it succeeds only when exactly N bytes were decrypted.
TruncationDetection ==
  LET file == fs[ENCRYPTED] IN
  (DecryptFileOver /\ ValidHeader(file) /\ dec_crypto.key # <<>>) =>
    /\ Len(Payload(file)) < DeclaredSize(file) =>
         (pc = "dec_failed" /\ exc = SizeMismatch)
    /\ pc = "dec_done" =>
         (remaining_size = 0 /\ Len(fs[DECRYPTED]) = DeclaredSize(file))

\* C7: streamed partial decrypt. For a ciphertext c = encrypt(p, 0, k) cut
\* into consecutive sub-ranges of any sizes, decrypting each at its
\* absolute start offset never raises, the joined results are at every
\* point the plaintext up to there, and the whole is p = decrypt(c, 0, k).
StreamedPartialDecrypt ==
  /\ pc # "stream_raised"
  /\ pc \in {"streaming", "streamed"} =>
       decrypted_chunks = Slice(test_data, 0, stream_pos)
  /\ pc = "streamed" =>
       /\ decrypted = Return(test_data)
       /\ decrypted = decrypt(crypto, encrypted.val, 0, None)

\* C7 witness: a first sub-range of one byte was decrypted, so the next one
\* starts at offset 1, inside a two-character key.
StreamedPartialDecryptWitness ==
  /\ pc = "streaming"
  /\ stream_pos = 1
  /\ Len(encrypted.val) = 3
  /\ Len(crypto.key) = 2
  /\ crypto.key[1] # crypto.key[2]

\* C8: empty-key rejection. With a zero-length key every operation is
\* refused with an error of its own: no operation proceeds or returns, and
\* none reaches the modulo by the key length.
EmptyKeyRejected ==
  /\ (crypto.key = <<>> /\ pc \in {"enc_loop", "enc_done", "enc_failed",
                                   "encrypted", "encrypt_raised"})
       => exc \notin {NoExc, ZeroDivisionError}
  /\ (dec_crypto.key = <<>> /\ pc \in {"dec_loop", "dec_done", "dec_failed"})
       => exc \notin {NoExc, ZeroDivisionError}
  /\ (key_to_use(crypto, arg_key) = <<>> /\ pc \in {"decrypted", "decrypt_raised"})
       => exc \notin {NoExc, ZeroDivisionError}

\* C9, as claimed: for a non-empty plaintext p and two different non-empty
\* keys k1 and k2, decrypt(encrypt(p, 0, k1), 0, k2) is never p.
KeyMismatch ==
  ( /\ pc = "decrypted"
    /\ test_data # <<>>
    /\ arg_offset = 0
    /\ arg_key # None
    /\ key_to_use(crypto, arg_key) # crypto.key
    /\ key_to_use(crypto, arg_key) # <<>>
    /\ crypto.key # <<>> )
  => decrypted.val # test_data

\* C9, amended: for a non-empty plaintext p and keys k1 and k2 such that
\* encrypt(p, 0, k1) returns, decrypt(encrypt(p, 0, k1), 0, k2) returns p
\* exactly when the two keys give the same mask at every position below
\* len(p); otherwise it returns other bytes or raises.
KeyMismatchUpToKeystream ==
  ( /\ pc \in {"decrypted", "decrypt_raised"}
    /\ test_data # <<>>
    /\ arg_offset = 0
    /\ arg_key # None )
  => ( (pc = "decrypted" /\ decrypted = Return(test_data))
         <=> SameKeystream(crypto.key, arg_key[1], Len(test_data)) )

\* C9 witness: two different keys, and the decryption returned the
\* plaintext of two bytes or more.
KeyMismatchWitness ==
  /\ pc = "decrypted"
  /\ Len(test_data) >= 2
  /\ arg_offset = 0
  /\ arg_key # None
  /\ arg_key[1] # crypto.key
  /\ decrypted.val = test_data

\* C10: single-byte mask. For every non-empty key, code points above 255
\* included, encrypt returns as many bytes as it was given, each in 0..255,
\* and does not raise.
SingleByteMask ==
  (crypto.key # <<>> /\ pc \in {"encrypted", "encrypt_raised"}) =>
    /\ pc = "encrypted"
    /\ exc = NoExc
    /\ Len(encrypted.val) = Len(test_data)
    /\ \A i \in 1..Len(encrypted.val) : IsByte(encrypted.val[i])

\* ------------------------------------------------------ supporting lemmas
\* Restricted to keys whose code points all fit in a byte, the round trip,
\* the involution, the truncation check and the shape of encrypt's result
\* hold: the failures of C1, C2, C6 and C10 need a code point above 255.
RoundTripFileByteKeys ==
  (ByteKey(crypto.key) /\ ByteKey(dec_crypto.key)) => RoundTripFile

InvolutionByteKeys == ByteKey(crypto.key) => Involution

TruncationDetectionByteKeys == ByteKey(dec_crypto.key) => TruncationDetection

SingleByteMaskByteKeys == ByteKey(crypto.key) => SingleByteMask

====
